---- MODULE Spec2Model ----
(***************************************************************************)
(* Model of statsmodels_forecasting_v2-slides.ipynb: the notebook's code    *)
(* cells run top to bottom, the two functions it defines (stationarity and  *)
(* sarimax_obj), the date index it builds and the brute-force search over   *)
(* the SARIMAX grid.  Library calls (adfuller, kpss, arma_order_select_ic,  *)
(* SARIMAX(...).fit(), scipy.optimize.brute, pandas date parsing) are the   *)
(* environment: their results are drawn from bounded sets.                  *)
(*                                                                         *)
(* Floats are records [nan, v]: v is an integer (p-values and alpha in      *)
(* units of 1e-4, scores in AIC units) and nan marks IEEE NaN.              *)
(***************************************************************************)
EXTENDS Integers, Sequences, FiniteSets, TLC

VARIABLES pc, binder, nb, out, Jout, fits, fitDefault, probes, arg, ret

vars == <<pc, binder, nb, out, Jout, fits, fitDefault, probes, arg, ret>>

----------------------------------------------------------------------------
(* Bounds of the exploration *)

\* probe points of the grid at which the SARIMAX outcome is chosen freely
NumProbes == 3
\* arma_order_select_ic searches p in 0..MaxAr, q in 0..MaxMa
MaxAr == 4
MaxMa == 2
\* rows of the dataset: consecutive quarters from (YearBase, 1)
YearBase == 1959
MaxRows == 6
\* years spanned by the rows of the date-index specification
YearSpan == 2

----------------------------------------------------------------------------
(* Floats *)

F(n) == [nan |-> FALSE, v |-> n]
NaN == [nan |-> TRUE, v |-> 0]

\* a < b on floats: false when either side is NaN
FLt(a, b) == ~a.nan /\ ~b.nan /\ a.v < b.v
FLe(a, b) == ~a.nan /\ ~b.nan /\ a.v <= b.v
FGe(a, b) == ~a.nan /\ ~b.nan /\ a.v >= b.v

----------------------------------------------------------------------------
(* stationarity(series, alpha=0.05) *)

\* the default of the alpha parameter, 0.05, in units of 1e-4
DefaultAlpha == 500

\* ':.3f' of a p-value held in units of 1e-4: rounded to thousandths (half to
\* even), printed with three decimals
Fmt3(p) ==
  IF p.nan THEN "nan"
  ELSE LET q == p.v \div 10
           r == p.v % 10
           t == IF r > 5 \/ (r = 5 /\ q % 2 = 1) THEN q + 1 ELSE q
           frac == t % 1000
           pad == IF frac < 10 THEN "00" ELSE IF frac < 100 THEN "0" ELSE ""
       IN  ToString(t \div 1000) \o "." \o pad \o ToString(frac)

Line(test, verdict, p) == [test |-> test, verdict |-> verdict, p |-> Fmt3(p)]

\* the test an if statement of stationarity makes on a p-value
Rejects_OrEqual(p, alpha) == FLe(p, alpha)
Rejects(p, alpha) == FLt(p, alpha)

\* alphaArg is <<>> when the caller omits alpha and <<a>> when it passes a
stationarity(adf_p, kpss_p, alphaArg) ==
  LET alpha == IF alphaArg = <<>> THEN F(DefaultAlpha) ELSE alphaArg[1]
      l1 == IF Rejects(adf_p, alpha)
            THEN Line("ADF", "REJECTED H0", adf_p)
            ELSE Line("ADF", "FAILED TO REJECT H0", adf_p)
      l2 == IF Rejects(kpss_p, alpha)
            THEN Line("KPSS", "REJECTED H0", kpss_p)
            ELSE Line("KPSS", "FAILED TO REJECT H0", kpss_p)
  IN  <<l1, l2>>

----------------------------------------------------------------------------
(* sarimax_obj(composite, endog) *)

\* the value of the except branch, 1e4
Penalty == 10000

ExcKinds == {"ValueError", "LinAlgError", "KeyboardInterrupt"}

\* what SARIMAX(...).fit().aic does for one grid point: the constructor
\* raises, fit raises, or both succeed and the fit has an AIC
Raises(stage, exc) == [stage |-> stage, exc |-> exc, aic |-> NaN]
Fitted(aic) == [stage |-> "ok", exc |-> "", aic |-> aic]

\* 'except:' names no exception class
Catches_ExceptionOnly(exc) == exc # "KeyboardInterrupt"
Catches_ValueErrorOnly(exc) == exc = "ValueError"
Catches(exc) == TRUE

\* an assignment to a name inside a function body binds a local
AssignInFunction_Global(env, name, val) ==
  [env EXCEPT !.globals =
     [n \in DOMAIN env.globals \cup {name} |->
        IF n = name THEN val ELSE env.globals[n]]]
AssignInFunction(env, name, val) ==
  [env EXCEPT !.locals = [env.locals EXCEPT ![name] = val]]

NoLocals == [order |-> <<>>, seasonal_order |-> <<>>]

\* the result of a call: the value returned or the exception that escapes,
\* with the namespaces as the call leaves them
sarimax_obj(composite, lib, g) ==
  LET e0 == [locals |-> NoLocals, globals |-> g]
      e1 == AssignInFunction(e0, "order", SubSeq(composite, 1, 3))
      e2 == AssignInFunction(e1, "seasonal_order", SubSeq(composite, 4, 7))
  IN  IF lib.stage = "ok"
      THEN [raised |-> FALSE, exc |-> "", value |-> lib.aic,
            locals |-> e2.locals, globals |-> e2.globals]
      ELSE IF Catches(lib.exc)
      THEN [raised |-> FALSE, exc |-> "", value |-> F(Penalty),
            locals |-> e2.locals, globals |-> e2.globals]
      ELSE [raised |-> TRUE, exc |-> lib.exc, value |-> NaN,
            locals |-> e2.locals, globals |-> e2.globals]

----------------------------------------------------------------------------
(* grid and scipy.optimize.brute(sarimax_obj, grid, args=[series],          *)
(* finish=None)                                                            *)

Slice(start, stop, step) == [start |-> start, stop |-> stop, step |-> step]

grid == << Slice(0, 1 + 0, 1),   \* p
           Slice(0, 1 + 0, 1),   \* d
           Slice(0, 1 + 0, 1),   \* q
           Slice(1, 4 + 1, 1),   \* P
           Slice(0, 2 + 1, 1),   \* D
           Slice(0, 2 + 1, 1),   \* Q
           Slice(1, 4 + 1, 1) >> \* s

\* number of values start, start+step, ... below stop
SliceLen(s) == IF s.stop <= s.start THEN 0
               ELSE (s.stop - s.start + s.step - 1) \div s.step

RECURSIVE ProdLen(_, _)
\* product of the lengths of axes k..Len(g)
ProdLen(g, k) == IF k > Len(g) THEN 1 ELSE SliceLen(g[k]) * ProdLen(g, k + 1)

NPoints(g) == ProdLen(g, 1)

\* the i-th point (1-based) of the flattened mesh: the last axis runs fastest
Point(g, i) ==
  [k \in 1..Len(g) |->
     g[k].start + g[k].step * (((i - 1) \div ProdLen(g, k + 1)) % SliceLen(g[k]))]

GridPoints(g) == {Point(g, i) : i \in 1..NPoints(g)}

\* numpy argmin scans left to right, moves the index whenever
\* J[i] >= J[best] is false and stops at the first NaN: the result is the
\* first NaN when there is one and the first least element otherwise
Argmin(J) ==
  LET nans == {i \in DOMAIN J : J[i].nan}
      least == {i \in DOMAIN J : \A j \in DOMAIN J : J[i].v <= J[j].v}
      First(S) == CHOOSE i \in S : \A j \in S : i <= j
  IN  IF nans # {} THEN First(nans) ELSE First(least)

\* what brute returns with finish=None and full_output off
BruteResult(g, J) == Point(g, Argmin(J))

----------------------------------------------------------------------------
(* date = year + '-q' + quarter;  pd.to_datetime(date) + QuarterEnd()       *)

Digit(d) == CASE d = 0 -> "0" [] d = 1 -> "1" [] d = 2 -> "2" [] d = 3 -> "3"
              [] d = 4 -> "4" [] d = 5 -> "5" [] d = 6 -> "6" [] d = 7 -> "7"
              [] d = 8 -> "8" [] d = 9 -> "9"

DigitVal(c) == CASE c = "0" -> 0 [] c = "1" -> 1 [] c = "2" -> 2 [] c = "3" -> 3
                 [] c = "4" -> 4 [] c = "5" -> 5 [] c = "6" -> 6 [] c = "7" -> 7
                 [] c = "8" -> 8 [] c = "9" -> 9 [] OTHER -> -1

RECURSIVE Str(_)
\* str(n) of a non-negative int, as a sequence of characters
Str(n) == IF n < 10 THEN <<Digit(n)>> ELSE Str(n \div 10) \o <<Digit(n % 10)>>

RECURSIVE ParseInt(_)
\* int(s) of a sequence of digit characters
ParseInt(s) == IF Len(s) = 0 THEN 0
          ELSE 10 * ParseInt(SubSeq(s, 1, Len(s) - 1)) + DigitVal(s[Len(s)])

\* one element of df['year'].map(int).map(str) + '-q' + df['quarter']...
DateString(row) == Str(row[1]) \o <<"-", "q">> \o Str(row[2])

NaT == <<0, 0, 0>>

to_datetime_MonthIsQuarter(s) ==
  <<ParseInt(SubSeq(s, 1, 4)), DigitVal(s[7]), 1>>
\* pd.to_datetime of a 'YYYY-qN' string: the first day of quarter N; any
\* other shape is not a quarter string
to_datetime(s) ==
  IF Len(s) = 7 /\ s[5] = "-" /\ s[6] \in {"q", "Q"}
     /\ \A k \in {1, 2, 3, 4, 7} : DigitVal(s[k]) >= 0
     /\ DigitVal(s[7]) \in 1..4
  THEN <<ParseInt(SubSeq(s, 1, 4)), (DigitVal(s[7]) - 1) * 3 + 1, 1>>
  ELSE NaT

IsLeap(y) == (y % 4 = 0 /\ y % 100 # 0) \/ y % 400 = 0

DaysInMonth(y, m) ==
  IF m = 2 THEN (IF IsLeap(y) THEN 29 ELSE 28)
  ELSE IF m \in {4, 6, 9, 11} THEN 30 ELSE 31

\* ts + QuarterEnd(): the first quarter end (March, June, September,
\* December) strictly after ts
QuarterEnd(ts) ==
  LET y == ts[1]
      m == ts[2]
      d == ts[3]
      since == m % 3
      n == IF since = 0 /\ d < DaysInMonth(y, m) THEN 0 ELSE 1
      mm == m + 3 * n - since
      y2 == IF mm > 12 THEN y + 1 ELSE y
      m2 == IF mm > 12 THEN mm - 12 ELSE mm
  IN  <<y2, m2, DaysInMonth(y2, m2)>>

\* the index of series: one timestamp per row of df
SeriesIndex(df) == [i \in DOMAIN df |-> QuarterEnd(to_datetime(DateString(df[i])))]

TsLt(a, b) ==
  \/ a[1] < b[1]
  \/ a[1] = b[1] /\ a[2] < b[2]
  \/ a[1] = b[1] /\ a[2] = b[2] /\ a[3] < b[3]

RowLt(a, b) == a[1] < b[1] \/ (a[1] = b[1] /\ a[2] < b[2])

\* n consecutive quarters starting at quarter q0 of year y0
ConsecutiveRows(y0, q0, n) ==
  [i \in 1..n |-> << y0 + ((q0 - 1 + i - 1) \div 4), ((q0 - 1 + i - 1) % 4) + 1 >>]

\* the rows data.load_pandas().data hands the notebook
Macrodata == ConsecutiveRows(YearBase, 1, MaxRows)

----------------------------------------------------------------------------
(* The notebook: code cells, top to bottom *)

Cells_SeriesBeforeDf ==
  << "imports", "data", "series", "df", "stationarity", "acf",
     "arma1", "select", "arma2", "sarimax", "brute" >>
Cells == << "imports", "data", "df", "series", "stationarity", "acf",
            "arma1", "select", "arma2", "sarimax", "brute" >>

Builtins == {"print", "display", "slice"}

Names == {"pd", "sm", "plt", "data", "df", "date", "series", "fig", "axes",
          "ax", "stationarity", "model", "result", "order", "predict",
          "predict_ci", "brute", "sarimax_obj", "grid"} \cup Builtins

\* a statement: the names it reads and the notebook-level names it binds
Stmt(reads, writes) == [reads |-> reads, writes |-> writes]

FitAndPlot ==
  << Stmt({"sm", "series"}, {"model"}),
     Stmt({"model"}, {"result"}),
     Stmt({"display", "result"}, {}),
     Stmt({"plt"}, {"fig", "ax"}),
     Stmt({"result", "ax"}, {"fig"}) >>

\* the statements of a cell in order; a call reads the names its body reads
CellStmts(cell) ==
  CASE cell = "imports" ->
         << Stmt({}, {"pd"}), Stmt({}, {"sm"}), Stmt({}, {"plt"}) >>
    [] cell = "data" ->
         << Stmt({"sm"}, {"data"}), Stmt({"print", "data"}, {}) >>
    [] cell = "df" ->
         << Stmt({"data"}, {"df"}), Stmt({"df"}, {}) >>
    [] cell = "series" ->
         << Stmt({"df"}, {"date"}),
            Stmt({"pd", "df", "date"}, {"series"}),
            Stmt({"series"}, {"fig"}) >>
    [] cell = "stationarity" ->
         << Stmt({}, {"stationarity"}),
            Stmt({"stationarity", "series", "sm", "print"}, {}) >>
    [] cell = "acf" ->
         << Stmt({"plt"}, {"fig", "axes"}),
            Stmt({"sm", "series", "axes"}, {"fig"}),
            Stmt({"sm", "series", "axes"}, {"fig"}) >>
    [] cell = "arma1" -> FitAndPlot
    [] cell = "select" ->
         << Stmt({"sm", "series"}, {"order"}), Stmt({"order"}, {}) >>
    [] cell = "arma2" -> FitAndPlot
    [] cell = "sarimax" ->
         << Stmt({"sm", "series"}, {"model"}),
            Stmt({"model"}, {"result"}),
            Stmt({"display", "result"}, {}),
            Stmt({"plt"}, {"fig", "ax"}),
            Stmt({"result"}, {"predict"}),
            Stmt({"predict"}, {"predict_ci"}),
            Stmt({"series", "ax"}, {}),
            Stmt({"predict", "ax"}, {}),
            Stmt({"ax", "predict_ci"}, {}) >>
    [] cell = "brute" ->
         << Stmt({}, {"brute"}),
            Stmt({}, {"sarimax_obj"}),
            Stmt({"slice"}, {"grid"}),
            Stmt({"brute", "sarimax_obj", "grid", "series", "sm"}, {"order"}),
            Stmt({"order"}, {}) >>

\* the statement of the brute cell that runs the search
SearchStmt == 4

RECURSIVE RunStmts(_, _, _, _, _)
\* run statements k..last of a cell: a read of an unbound name stops the
\* cell with a NameError; b maps each name to the cells that have bound it
RunStmts(stmts, k, last, b, cell) ==
  IF k > last THEN [ok |-> TRUE, binder |-> b]
  ELSE IF \E n \in stmts[k].reads : b[n] = {}
       THEN [ok |-> FALSE, binder |-> b]
       ELSE RunStmts(stmts, k + 1, last,
                     [n \in DOMAIN b |->
                        IF n \in stmts[k].writes THEN b[n] \cup {cell} ELSE b[n]],
                     cell)

\* the label after a cell
After(cell) ==
  LET i == CHOOSE k \in DOMAIN Cells : Cells[k] = cell
  IN  IF i = Len(Cells) THEN "done" ELSE Cells[i + 1]

NoModel == [cls |-> "", order |-> <<>>, seasonal_order |-> <<>>]
ARMA(order) == [cls |-> "ARMA", order |-> order, seasonal_order |-> <<>>]
SARIMAX(order, seasonal_order) ==
  [cls |-> "SARIMAX", order |-> order, seasonal_order |-> seasonal_order]
\* model.fit()
Fit(model) == [of |-> model]

BinderInit == [n \in Names |-> IF n \in Builtins THEN {"builtins"} ELSE {}]

NbInit == [df |-> <<>>, date |-> <<>>, series |-> <<>>, grid |-> <<>>,
           model |-> NoModel, result |-> Fit(NoModel), order |-> <<>>]

----------------------------------------------------------------------------
(* Results the libraries can hand back *)

\* p-values, in units of 1e-4
PValues == {F(0), F(499), F(500), F(1004), NaN}

\* alpha as passed by a caller (<<>>: omitted)
AlphaArgs == {<<>>, <<F(100)>>, <<F(500)>>, <<F(1000)>>}

\* arma_order_select_ic(...)['aic_min_order']
ICOrders == {<<p, q>> : p \in 0..MaxAr, q \in 0..MaxMa}

AICs == {F(-20), F(500), F(10000), F(10001), NaN}

AllOutcomes ==
  {Raises(st, e) : st \in {"construct", "fit"}, e \in ExcKinds}
    \cup {Fitted(a) : a \in AICs}

\* the outcomes the search specification draws from
SearchOutcomes ==
  {Raises("fit", "LinAlgError"), Fitted(F(500)), Fitted(F(10001)), Fitted(NaN)}

ProbeSet ==
  {1} \cup {k * (NPoints(grid) \div NumProbes) : k \in 1..NumProbes}

----------------------------------------------------------------------------
(* Actions: one per code cell; the brute cell is the start of the search,   *)
(* one evaluation per grid point, and the assignment of the result          *)

\* run a whole cell: bind its names, set the values nb2 and the output out2
RunCell(cell, nb2, out2) ==
  /\ pc = cell
  /\ LET r == RunStmts(CellStmts(cell), 1, Len(CellStmts(cell)), binder, cell)
     IN  /\ binder' = r.binder
         /\ IF r.ok
            THEN pc' = After(cell) /\ nb' = nb2 /\ out' = out2
            ELSE pc' = "NameError" /\ UNCHANGED <<nb, out>>
  /\ UNCHANGED <<Jout, fits, fitDefault, probes, arg, ret>>

ImportsCell == RunCell("imports", nb, out)

DataCell == RunCell("data", nb, out)

DfCell == RunCell("df", [nb EXCEPT !.df = Macrodata], out)

SeriesCell ==
  RunCell("series",
          [nb EXCEPT !.date = [i \in DOMAIN nb.df |-> DateString(nb.df[i])],
                     !.series = SeriesIndex(nb.df)],
          out)

StationarityCell ==
  \E adf_p \in PValues, kpss_p \in PValues :
    RunCell("stationarity", nb, stationarity(adf_p, kpss_p, <<>>))

AcfCell == RunCell("acf", nb, out)

Arma1Cell ==
  RunCell("arma1",
          [nb EXCEPT !.model = ARMA(<<2, 0>>), !.result = Fit(ARMA(<<2, 0>>))],
          out)

SelectCell ==
  \E o \in ICOrders : RunCell("select", [nb EXCEPT !.order = o], out)

Arma2Cell ==
  RunCell("arma2",
          [nb EXCEPT !.model = ARMA(<<4, 1>>), !.result = Fit(ARMA(<<4, 1>>))],
          out)

SarimaxCell ==
  LET m == SARIMAX(<<0, 0, 0>>, <<2, 0, 2, 1>>)
  IN  RunCell("sarimax", [nb EXCEPT !.model = m, !.result = Fit(m)], out)

\* from scipy.optimize import brute; def sarimax_obj; grid = ...; and the
\* call of brute, which reads its arguments
BruteCell ==
  /\ pc = "brute"
  /\ LET st == CellStmts("brute")
         r1 == RunStmts(st, 1, SearchStmt - 1, binder, "brute")
         r2 == RunStmts(<<Stmt(st[SearchStmt].reads, {})>>, 1, 1, r1.binder, "brute")
     IN  /\ binder' = r1.binder
         /\ IF r1.ok /\ r2.ok
            THEN pc' = "search" /\ nb' = [nb EXCEPT !.grid = grid]
            ELSE pc' = "NameError" /\ UNCHANGED nb
  /\ \E d \in SearchOutcomes : fitDefault' = d
  /\ Jout' = <<>>
  /\ fits' = <<>>
  /\ UNCHANGED <<out, probes, arg, ret>>

\* brute evaluates the objective at the next point of the mesh; an exception
\* that escapes the objective ends the cell
BruteEval ==
  /\ pc = "search"
  /\ Len(Jout) < NPoints(nb.grid)
  /\ LET i == Len(Jout) + 1
         x == Point(nb.grid, i)
     IN  \E lib \in (IF i \in probes THEN SearchOutcomes ELSE {fitDefault}) :
           LET r == sarimax_obj(x, lib, nb)
           IN  /\ nb' = r.globals
               /\ fits' = Append(fits, [x |-> x, lib |-> lib])
               /\ IF r.raised
                  THEN pc' = "error" /\ UNCHANGED Jout
                  ELSE pc' = "search" /\ Jout' = Append(Jout, r.value)
  /\ UNCHANGED <<binder, out, fitDefault, probes, arg, ret>>

\* order = brute(...) is assigned, then the cell's last line reads order
BruteDone ==
  /\ pc = "search"
  /\ Len(Jout) = NPoints(nb.grid)
  /\ LET st == CellStmts("brute")
         r == RunStmts(<<Stmt({}, st[SearchStmt].writes)>> \o SubSeq(st, SearchStmt + 1, Len(st)),
                       1, Len(st) - SearchStmt + 1, binder, "brute")
     IN  /\ binder' = r.binder
         /\ nb' = [nb EXCEPT !.order = BruteResult(nb.grid, Jout)]
         /\ pc' = IF r.ok THEN After("brute") ELSE "NameError"
  /\ UNCHANGED <<out, Jout, fits, fitDefault, probes, arg, ret>>

Init ==
  /\ pc = Cells[1]
  /\ binder = BinderInit
  /\ nb = NbInit
  /\ out = <<>>
  /\ Jout = <<>>
  /\ fits = <<>>
  /\ fitDefault = Fitted(F(0))
  /\ probes = {}
  /\ arg = <<>>
  /\ ret = <<>>

Next ==
  \/ ImportsCell
  \/ DataCell
  \/ DfCell
  \/ SeriesCell
  \/ StationarityCell
  \/ AcfCell
  \/ Arma1Cell
  \/ SelectCell
  \/ Arma2Cell
  \/ SarimaxCell
  \/ BruteCell
  \/ BruteEval
  \/ BruteDone

Spec == Init /\ [][Next]_vars

----------------------------------------------------------------------------
(* The search alone, from the state the cells before the brute cell leave   *)

RECURSIVE BinderAfter(_)
\* the bindings after cells 1..k have run
BinderAfter(k) ==
  IF k = 0 THEN BinderInit
  ELSE RunStmts(CellStmts(Cells[k]), 1, Len(CellStmts(Cells[k])),
                BinderAfter(k - 1), Cells[k]).binder

\* the values after the cells before the brute cell have run
NbBeforeBrute(o) ==
  [df |-> Macrodata,
   date |-> [i \in DOMAIN Macrodata |-> DateString(Macrodata[i])],
   series |-> SeriesIndex(Macrodata),
   grid |-> <<>>,
   model |-> SARIMAX(<<0, 0, 0>>, <<2, 0, 2, 1>>),
   result |-> Fit(SARIMAX(<<0, 0, 0>>, <<2, 0, 2, 1>>)),
   order |-> o]

InitSearch ==
  /\ pc = "brute"
  /\ binder = BinderAfter(Len(Cells) - 1)
  /\ nb = NbBeforeBrute(<<MaxAr, MaxMa>>)
  /\ out = stationarity(F(499), F(1004), <<>>)
  /\ Jout = <<>>
  /\ fits = <<>>
  /\ fitDefault = Fitted(F(0))
  /\ probes = ProbeSet
  /\ arg = <<>>
  /\ ret = <<>>

NextSearch ==
  \/ BruteCell
  \/ BruteEval
  \/ BruteDone

SpecSearch == InitSearch /\ [][NextSearch]_vars

----------------------------------------------------------------------------
(* One call of sarimax_obj on any grid point and any outcome of the fit     *)

InitObj ==
  /\ pc = "call"
  /\ binder = RunStmts(CellStmts("brute"), 1, SearchStmt - 1,
                       BinderAfter(Len(Cells) - 1), "brute").binder
  /\ nb = [NbBeforeBrute(<<MaxAr, MaxMa>>) EXCEPT !.grid = grid]
  /\ out = stationarity(F(499), F(1004), <<>>)
  /\ Jout = <<>>
  /\ fits = <<>>
  /\ fitDefault = Fitted(F(0))
  /\ probes = {}
  /\ arg \in [composite : GridPoints(grid), lib : AllOutcomes]
  /\ ret = <<>>

CallSarimaxObj ==
  /\ pc = "call"
  /\ LET r == sarimax_obj(arg.composite, arg.lib, nb)
     IN  /\ ret' = <<r>>
         /\ nb' = r.globals
  /\ pc' = "ret"
  /\ UNCHANGED <<binder, out, Jout, fits, fitDefault, probes, arg>>

SpecObj == InitObj /\ [][CallSarimaxObj]_vars

----------------------------------------------------------------------------
(* One call of stationarity on any pair of p-values, with or without alpha  *)

InitStat ==
  /\ pc = "call"
  /\ binder = BinderAfter(5)
  /\ nb = [NbInit EXCEPT
             !.df = Macrodata,
             !.date = [i \in DOMAIN Macrodata |-> DateString(Macrodata[i])],
             !.series = SeriesIndex(Macrodata)]
  /\ out = <<>>
  /\ Jout = <<>>
  /\ fits = <<>>
  /\ fitDefault = Fitted(F(0))
  /\ probes = {}
  /\ arg \in [adf_p : PValues, kpss_p : PValues, alpha : AlphaArgs]
  /\ ret = <<>>

CallStationarity ==
  /\ pc = "call"
  /\ out' = out \o stationarity(arg.adf_p, arg.kpss_p, arg.alpha)
  /\ pc' = "ret"
  /\ UNCHANGED <<binder, nb, Jout, fits, fitDefault, probes, arg, ret>>

SpecStat == InitStat /\ [][CallStationarity]_vars

----------------------------------------------------------------------------
(* The date-combining cell on any rows                                      *)

Years == YearBase .. (YearBase + YearSpan)

Rows == {<<y, q>> : y \in Years, q \in 1..4}

DateInputs ==
  {ConsecutiveRows(y0, q0, n) : y0 \in Years, q0 \in 1..4, n \in 1..MaxRows}
    \cup {<<r1, r2>> : r1 \in Rows, r2 \in Rows}

InitDate ==
  /\ pc = "series"
  /\ binder = BinderAfter(3)
  /\ \E rows \in DateInputs : nb = [NbInit EXCEPT !.df = rows]
  /\ out = <<>>
  /\ Jout = <<>>
  /\ fits = <<>>
  /\ fitDefault = Fitted(F(0))
  /\ probes = {}
  /\ arg = <<>>
  /\ ret = <<>>

SpecDate == InitDate /\ [][SeriesCell]_vars

----------------------------------------------------------------------------
(* Properties *)

\* the 144 points: p = d = q = 0, P in 1..4, D in 0..2, Q in 0..2, s in 1..4
TheGrid ==
  {<<0, 0, 0, P, D, Q, s>> : P \in 1..4, D \in 0..2, Q \in 0..2, s \in 1..4}

Evaluated == {fits[i].x : i \in 1..Len(fits)}

\* the position in the search of the point stored in order
IndexOfOrder == CHOOSE i \in 1..Len(fits) : fits[i].x = nb.order

\* C1: sarimax_obj lets no exception escape: it returns the fit's AIC when
\* construction and fit succeed and exactly 1e4 when either raises, whatever
\* the exception
C1_NoEscape ==
  pc = "ret" =>
    /\ ~ret[1].raised
    /\ arg.lib.stage = "ok" => ret[1].value = arg.lib.aic
    /\ arg.lib.stage # "ok" => ret[1].value = [nan |-> FALSE, v |-> 10000]

C1_Witness ==
  /\ pc = "ret"
  /\ arg.lib.stage = "fit"
  /\ arg.lib.exc = "KeyboardInterrupt"
  /\ ret[1].value = [nan |-> FALSE, v |-> 10000]

\* C2: the search goes on past failures: no evaluation ends the cell, each
\* evaluation yields a score and is at one of the 144 grid points, at a point
\* not evaluated before; after a failed fit the next step of the search (the
\* next evaluation or, after the last point, the completion) can be taken;
\* and at completion all 144 points, and only they, have been evaluated
C2_ContinuesPastFailures ==
  /\ pc # "error"
  /\ Len(Jout) = Len(fits)
  /\ Len(fits) > 0 =>
       /\ fits[Len(fits)].x \in TheGrid
       /\ \A j \in 1..(Len(fits) - 1) : fits[j].x # fits[Len(fits)].x
  /\ (pc = "search" /\ Len(fits) > 0 /\ fits[Len(fits)].lib.stage # "ok") =>
       IF Len(fits) < 144 THEN ENABLED BruteEval ELSE ENABLED BruteDone
  /\ pc = "done" => (Evaluated = TheGrid /\ Len(fits) = 144)

C2_Witness ==
  /\ pc = "done"
  /\ fits[1].lib.stage # "ok"
  /\ fits[48].lib.stage # "ok"
  /\ fits[144].lib.stage = "ok"
  /\ Len(Jout) = 144

\* C3: stationarity prints two lines, ADF then KPSS; a line says REJECTED H0
\* exactly when that test's own p-value is strictly below alpha (0.05 when
\* alpha is not given) and FAILED TO REJECT H0 otherwise
C3_Verdicts ==
  pc = "ret" =>
    LET alpha == IF arg.alpha = <<>> THEN 500 ELSE arg.alpha[1].v
        Below(p) == ~p.nan /\ p.v < alpha
        Verdict(p) == IF Below(p) THEN "REJECTED H0" ELSE "FAILED TO REJECT H0"
    IN  /\ Len(out) = 2
        /\ out[1].test = "ADF" /\ out[1].verdict = Verdict(arg.adf_p)
        /\ out[2].test = "KPSS" /\ out[2].verdict = Verdict(arg.kpss_p)

C3_Witness ==
  /\ pc = "ret"
  /\ arg.alpha = <<>>
  /\ arg.adf_p = F(500)
  /\ out[1].verdict = "FAILED TO REJECT H0"
  /\ arg.kpss_p = F(499)
  /\ out[2].verdict = "REJECTED H0"

\* C4: the point stored in order is a grid point whose score is less than or
\* equal to the score of every grid point
C4_OrderIsMinimum ==
  pc = "done" =>
    /\ nb.order \in TheGrid
    /\ \A i \in 1..Len(Jout) : FLe(Jout[IndexOfOrder], Jout[i])

\* C5: the date-combining cell maps each row (y, q) to the last day of
\* quarter q of year y, so earlier rows get strictly earlier timestamps and
\* different rows get different timestamps
C5_QuarterEnds ==
  pc = "stationarity" =>
    LET LastDay(q) == IF q \in {1, 4} THEN 31 ELSE 30
    IN  /\ Len(nb.series) = Len(nb.df)
        /\ \A i \in DOMAIN nb.df :
             nb.series[i] = <<nb.df[i][1], 3 * nb.df[i][2], LastDay(nb.df[i][2])>>
        /\ \A i, j \in DOMAIN nb.df :
             /\ RowLt(nb.df[i], nb.df[j]) => TsLt(nb.series[i], nb.series[j])
             /\ nb.df[i] # nb.df[j] => nb.series[i] # nb.series[j]

C5_Witness ==
  /\ pc = "stationarity"
  /\ Len(nb.df) = MaxRows
  /\ nb.df[1] = <<YearBase, 4>>
  /\ nb.series[1] = <<YearBase, 12, 31>>
  /\ nb.series[2] = <<YearBase + 1, 3, 31>>

\* C6: the second ARMA fit uses the order the order-selection cell stored in
\* order
C6_TunedOrder ==
  pc = "sarimax" => (nb.model.cls = "ARMA" /\ nb.model.order = nb.order)

\* C7: a call of stationarity or sarimax_obj leaves the notebook-level values
\* unchanged; order changes only in the order-selection cell and when brute
\* returns
C7_Stateless ==
  [][ /\ pc = "stationarity" => nb' = nb
      /\ (pc = "search" /\ pc' # "done") => nb' = nb
      /\ nb'.order # nb.order =>
           (pc = "select" \/ (pc = "search" /\ pc' = "done")) ]_vars

C7_Witness ==
  /\ pc = "search"
  /\ Len(Jout) = 144
  /\ nb.order \in ICOrders

\* C8: run top to bottom, no cell reads a name that is not yet bound; series
\* is bound only by the date-combining cell and read by every cell from the
\* stationarity test onward
C8_BoundBeforeRead ==
  /\ pc # "NameError"
  /\ binder["series"] \subseteq {"series"}
  /\ \A k \in DOMAIN Cells :
       pc = Cells[k] =>
         /\ RunStmts(CellStmts(pc), 1, Len(CellStmts(pc)), binder, pc).ok
         /\ k >= 5 => /\ binder["series"] = {"series"}
                      /\ \E st \in DOMAIN CellStmts(pc) :
                           "series" \in CellStmts(pc)[st].reads

C8_Witness ==
  /\ pc = "done"
  /\ binder["series"] = {"series"}
  /\ binder["order"] = {"select", "brute"}

\* C9: when some fit succeeds, the point the search returns is one whose fit
\* succeeded
C9_PenaltyDominates ==
  (pc = "done" /\ \E i \in 1..Len(fits) : fits[i].lib.stage = "ok")
    => fits[IndexOfOrder].lib.stage = "ok"

====
